---- MODULE Spec2Model ----
(***************************************************************************)
(* Model of the reservation tools of kvg-poc.                              *)
(*                                                                         *)
(* The repository holds two variants of the same tool module:              *)
(*   src/reservation_agent/tools.py  (asyncio, lazy get_engine, validator) *)
(*   src/tools.py                    (synchronous, pool built at import)   *)
(* A process loads one of them (variable `module`).  Callers are threads / *)
(* tasks that run one validator callback or one tool invocation at a time. *)
(***************************************************************************)
EXTENDS Integers, Sequences, FiniteSets, TLC

VARIABLES
    module,             \* which tools module the process has loaded
    imported,           \* module-level code has run (src/tools.py:43)
    db,                 \* the reservations table (read-only for this layer)
    user_token,         \* session state key "user_token"
    logged_in,          \* session state key "logged_in"
    id_token_info,      \* session state key "id_token_info"
    user_id_from_oauth, \* session state key "user_id_from_oauth"
    connector,          \* module global `connector` (0 = None)
    engine,             \* module global `engine` (0 = None)
    SessionLocal,       \* module global `SessionLocal` (engine it is bound to, 0 = None)
    nConnectors,        \* number of Connector() objects constructed so far
    nEngines,           \* number of engines (pools) constructed so far
    checkedOut,         \* per engine: connections currently checked out of its pool
    verifyCalls,        \* per session: calls made to id_token.verify_oauth2_token
    task,               \* per caller: the invocation in progress and its locals
    last,               \* the invocation that ended most recently, with its outcome
                        \* (again: it repeated the invocation that ended before it)
    calls,              \* invocations started so far
    qres,               \* result of the last direct query evaluation (SpecQuery)
    clients             \* per stage of a call: the callers that are at it (SpecPool)

vars == <<module, imported, db, user_token, logged_in, id_token_info,
          user_id_from_oauth, connector, engine, SessionLocal, nConnectors,
          nEngines, checkedOut, verifyCalls, task, last, calls, qres, clients>>

-----------------------------------------------------------------------------
(* Bounds of the model *)

MaxCalls == 2
MaxVerify == 2
MaxRows == 4
MaxDate == 3
NumClients == 8

(* Program constants *)

pool_size == 5
max_overflow == 2
pool_timeout == 30
LatestLimit == 3

-----------------------------------------------------------------------------
(* Values *)

Tasks == {"t1", "t2"}
Sessions == {"s1", "s2"}
Users == {"user_123", "user_456"}
None == "None"
AGENT == "reservation_agent.tools"
ROOT == "tools"

LOGIN_MSG == "user must be logged in to use this tool"
HARD_CODED_USER == "user_123"

\* Credentials: one that verifies for each user, and one the verifier rejects.
TokenFor(u) == "token:" \o u
BadToken == "token:expired"
Tokens == {TokenFor(u) : u \in Users} \cup {BadToken}
Subject(tok) == CHOOSE u \in Users : TokenFor(u) = tok

\* reservation_id arguments are strings, modelled as sequences of characters.
RidInputs == {<< >>, <<"a">>, <<"1">>, <<"2">>}

Row(i, u, d) == [id |-> i, user_id |-> u, details |-> "details", date |-> d]
\* The table of the concurrent specification: user_123 owns reservations 1 and 3,
\* user_456 owns none, and no reservation has id 2.
SampleDB == {Row(1, "user_123", 1), Row(3, "user_123", 2)}

\* Every table of at most MaxRows rows with distinct ids 1..MaxRows.
RowChoices == [owner : Users \cup {None}, date : 1..MaxDate]
TableOf(f) == {Row(i, f[i].owner, f[i].date) : i \in {j \in DOMAIN f : f[j].owner # None}}
AllDatabases == {TableOf(f) : f \in [1..MaxRows -> RowChoices]}

\* user_123 has five reservations dated 2024-01-01 .. 2024-01-05, user_456 has one
Scenario2DB == {Row(i, "user_123", i) : i \in 1..5} \cup {Row(6, "user_456", 6)}

-----------------------------------------------------------------------------
(* Conversions *)

Digits == <<"0", "1", "2", "3", "4", "5", "6", "7", "8", "9">>
IsDigit(c) == \E k \in 1..10 : Digits[k] = c
DigitVal(c) == (CHOOSE k \in 1..10 : Digits[k] = c) - 1

\* int(reservation_id): the value of a string of decimal digits, -1 for ValueError.
RECURSIVE IntAcc(_, _)
IntAcc(s, acc) ==
    IF s = << >> THEN acc
    ELSE IF ~IsDigit(Head(s)) THEN -1
    ELSE IntAcc(Tail(s), acc * 10 + DigitVal(Head(s)))
py_int(s) == IF s = << >> THEN -1 ELSE IntAcc(s, 0)

\* The decimal text of a non-negative integer (how the id compares with a string parameter).
RECURSIVE DecStr(_)
DecStr(n) == IF n < 10 THEN <<Digits[n + 1]>> ELSE DecStr(n \div 10) \o <<Digits[(n % 10) + 1]>>

\* str(reservation_date)
DateStr(d) == "2024-01-" \o (IF d < 10 THEN "0" ELSE "") \o ToString(d)

-----------------------------------------------------------------------------
(* The two SQL statements *)

\* WHERE id = :reservation_id_param AND user_id = :user_id_param, integer parameter
select_by_id_int(table, rid_int, uid) ==
    {r \in table : r.id = rid_int /\ r.user_id = uid}

\* the same statement with the string parameter as the caller gave it
select_by_id_text(table, rid, uid) ==
    {r \in table : DecStr(r.id) = rid /\ r.user_id = uid}

\* WHERE user_id = :user_id_param
owned_by(table, uid) == {r \in table : r.user_id = uid}

\* ORDER BY reservation_date DESC LIMIT k: every order the database may return
\* (rows of equal date come in any order).
RECURSIVE order_desc_limit(_, _)
order_desc_limit(rows, k) ==
    IF rows = {} \/ k = 0 THEN {<< >>}
    ELSE UNION { { <<r>> \o rest : rest \in order_desc_limit(rows \ {r}, k - 1) } :
                 r \in {m \in rows : \A o \in rows : o.date <= m.date} }

\* the statement without its WHERE clause
select_latest_unscoped(table, uid) == order_desc_limit(table, LatestLimit)

select_latest(table, uid) == order_desc_limit(owned_by(table, uid), LatestLimit)

-----------------------------------------------------------------------------
(* Responses *)

NoRows == << >>
Resp(kind, text, rid, uid, err, rows) ==
    [kind |-> kind, text |-> text, rid |-> rid, uid |-> uid, err |-> err, rows |-> rows]
NoResp == Resp("none", "", << >>, "", "", NoRows)

\* {"id": ..., "user_id": ..., "details": ..., "date": str(...)}
row_dict(r) == [id |-> r.id, user_id |-> r.user_id, details |-> r.details, date |-> DateStr(r.date)]

RECURSIVE row_dicts(_)
row_dicts(rows) == IF rows = << >> THEN << >> ELSE <<row_dict(Head(rows))>> \o row_dicts(Tail(rows))

ErrorResp(text) == Resp("error", text, << >>, "", "", NoRows)
DbErrorResp(text, err) == Resp("error", text, << >>, "", err, NoRows)
RaisedResp(err) == Resp("exception", "", << >>, "", err, NoRows)
CancelledResp == Resp("cancelled", "", << >>, "", "", NoRows)

\* a lookup that remembers the id it served last and does not serve it again
by_id_response_served_once(found, rid) ==
    IF found = {} \/ (last.op = "by_id" /\ last.ran /\ last.rid = rid)
    THEN {Resp("message", "No reservation found with ID {rid} in your name.", rid, "", "", NoRows)}
    ELSE {Resp("reservation", "", << >>, "", "", <<row_dict(r)>>) : r \in found}

\* reservation = result.fetchone(); the reservation dict or the not-found message
by_id_response(found, rid) ==
    IF found = {}
    THEN {Resp("message", "No reservation found with ID {rid} in your name.", rid, "", "", NoRows)}
    ELSE {Resp("reservation", "", << >>, "", "", <<row_dict(r)>>) : r \in found}

\* a shaping that reports an empty result as an error
latest_response_empty_error(rows, uid) ==
    IF rows = << >>
    THEN Resp("error", "I was unable to find any reservations under your name.", << >>, "", "", NoRows)
    ELSE Resp("reservations", "", << >>, "", "", row_dicts(rows))

\* the reservations list or the no-reservations message
latest_response(rows, uid) ==
    IF rows = << >>
    THEN Resp("message", "No reservations found for user {uid}.", << >>, uid, "", NoRows)
    ELSE Resp("reservations", "", << >>, "", "", row_dicts(rows))

-----------------------------------------------------------------------------
(* Callers *)

Idle == [pc |-> "idle", op |-> "none", sess |-> "s1", token |-> None, rid |-> << >>,
         user_id |-> "", pool |-> 0]

\* each caller builds at most one engine
PoolIds == 1..Cardinality(Tasks)
Capacity == pool_size + max_overflow

\* the pool of engine e can hand out one more connection
HasRoom(e) == checkedOut[e] < Capacity

\* the stages of a call that SpecPool counts callers at, and the engines they may build
PoolEngines == 1..NumClients
Stages ==
    ({"idle", "get_engine", "new_connector", "new_engine", "return_engine"} \X {0})
    \cup ({"connect", "execute"} \X PoolEngines)

Started(o, s) == [Idle EXCEPT !.op = o, !.sess = s]

\* a caller starts an invocation when it runs none; at most MaxCalls are started
CanStart(t) == imported /\ task[t].pc = "idle" /\ calls < MaxCalls

\* the invocation rec of caller t goes on at pc
Continue(t, rec, pc) ==
    /\ task' = [task EXCEPT ![t] = [rec EXCEPT !.pc = pc]]
    /\ UNCHANGED last

\* the invocation rec repeats the one that ended before it: the same tool, with the
\* same bound user and the same argument, both with their statement executed
Repeats(rec, ran) ==
    /\ ran /\ last.ran
    /\ rec.op = last.op /\ rec.user_id = last.user_id /\ rec.rid = last.rid

\* the invocation rec of caller t ends with outcome r; ran: its statement was executed
Complete(t, rec, r, ran) ==
    /\ task' = [task EXCEPT ![t] = Idle]
    /\ last' = [op |-> rec.op, sess |-> rec.sess, rid |-> rec.rid,
                user_id |-> rec.user_id, ran |-> ran, resp |-> r,
                again |-> Repeats(rec, ran)]

Returned == Resp("returned", "", << >>, "", "", NoRows)

session_vars == <<user_token, logged_in, id_token_info, user_id_from_oauth>>
global_vars == <<connector, engine, SessionLocal, nConnectors, nEngines>>
fixed_vars == <<module, imported, db, qres, clients>>

-----------------------------------------------------------------------------
(* Initial states *)

TypeInit ==
    /\ connector = 0 /\ engine = 0 /\ SessionLocal = 0
    /\ nConnectors = 0 /\ nEngines = 0
    /\ checkedOut = [e \in PoolIds |-> 0]
    /\ verifyCalls = [s \in Sessions |-> 0]
    /\ logged_in = [s \in Sessions |-> None]
    /\ id_token_info = [s \in Sessions |-> None]
    /\ task = [t \in Tasks |-> Idle]
    /\ last = [op |-> "none", sess |-> "s1", rid |-> << >>,
               user_id |-> "", ran |-> FALSE, resp |-> NoResp, again |-> FALSE]
    /\ calls = 0
    /\ qres = [op |-> "none", uid |-> "", rid |-> << >>, resp |-> NoResp]
    /\ clients = [st \in Stages |-> 0]

\* main() creates every session with state {"user_token": os.environ.get("MY_OAUTH2_TOKEN")}:
\* the sessions of a process hold the same token, or none.  The synchronous module
\* reads "user_id_from_oauth", which the session's creator supplies.
Init ==
    /\ TypeInit
    /\ module \in {AGENT, ROOT}
    /\ imported = (module = AGENT)
    /\ db = SampleDB
    /\ \E tok \in (IF module = AGENT THEN Tokens \cup {None} ELSE {None}) :
         user_token = [s \in Sessions |-> tok]
    /\ user_id_from_oauth \in [Sessions -> IF module = ROOT THEN Users \cup {None} ELSE {None}]

-----------------------------------------------------------------------------
(* src/reservation_agent/tools.py *)

\* the verifier called by the coroutine itself, on the thread of the event loop
called_on_loop == FALSE

\* `await asyncio.get_running_loop().run_in_executor(None, ...)`: the verifier runs on
\* a thread of the default executor and the coroutine is suspended meanwhile
run_in_executor == TRUE

\* the event loop can run caller t: no other coroutine holds the loop's thread inside
\* a blocking call to the verifier
LoopFree(t) ==
    \A u \in Tasks \ {t} : task[u].pc = "verifying" => run_in_executor

\* a validator that takes every session to hold a token
token_always_present(s) == FALSE

\* `if not token`: the session holds no token under "user_token"
token_absent(s) == user_token[s] = None

\* validate_oauth2_token up to the await: the token is read; without one the flag is
\* set to False and the callback returns, with one the verifier is submitted.
validate_oauth2_token_begin(t, s) ==
    /\ module = AGENT /\ CanStart(t) /\ LoopFree(t)
    /\ verifyCalls[s] < MaxVerify
    /\ calls' = calls + 1
    /\ IF token_absent(s)
       THEN /\ logged_in' = [logged_in EXCEPT ![s] = "False"]
            /\ Complete(t, Started("validate", s), Returned, FALSE)
            /\ UNCHANGED verifyCalls
       ELSE /\ Continue(t, [Started("validate", s) EXCEPT !.token = user_token[s]], "verifying")
            /\ verifyCalls' = [verifyCalls EXCEPT ![s] = @ + 1]
            /\ UNCHANGED logged_in
    /\ UNCHANGED <<fixed_vars, user_token, id_token_info, user_id_from_oauth, global_vars, checkedOut>>

\* id_token.verify_oauth2_token(token, req): the claims of a token that verifies, or
\* an exception (rejected token, or the verifier cannot be reached).
verify_oauth2_token(tok) ==
    (IF tok \in {TokenFor(u) : u \in Users} THEN {[ok |-> TRUE, sub |-> Subject(tok)]} ELSE {})
    \cup {[ok |-> FALSE, sub |-> None]}

\* the await returns idinfo and the two keys are written, or it raises
validate_oauth2_token_end(t) ==
    /\ task[t].pc = "verifying"
    /\ \E idinfo \in verify_oauth2_token(task[t].token) :
         IF idinfo.ok
         THEN /\ logged_in' = [logged_in EXCEPT ![task[t].sess] = "True"]
              /\ id_token_info' = [id_token_info EXCEPT ![task[t].sess] = idinfo.sub]
              /\ Complete(t, task[t], Returned, FALSE)
         ELSE /\ Complete(t, task[t], RaisedResp("ValueError"), FALSE)
              /\ UNCHANGED <<logged_in, id_token_info>>
    /\ UNCHANGED <<fixed_vars, user_token, user_id_from_oauth, global_vars, checkedOut, verifyCalls, calls>>

\* a tool that marks the session it was called in as logged in
state_set_logged_in(s) ==
    /\ logged_in' = [logged_in EXCEPT ![s] = "True"]
    /\ UNCHANGED <<user_token, id_token_info, user_id_from_oauth>>

\* tool_context.state.get(...) / .to_dict(): the tools read the state of their session
\* and assign no key of it
state_get(s) == UNCHANGED session_vars

\* get_user_id_from_context: the login message, or the hard-coded user
ra_get_user_id_from_context(s) ==
    IF logged_in[s] # "True" THEN LOGIN_MSG ELSE HARD_CODED_USER

\* get_user_reservation_by_id up to `await get_engine()`
ra_get_user_reservation_by_id(t, s, r) ==
    /\ module = AGENT /\ CanStart(t) /\ LoopFree(t)
    /\ calls' = calls + 1
    /\ LET user_id == ra_get_user_id_from_context(s)
           rec == [Started("by_id", s) EXCEPT !.rid = r, !.user_id = user_id]
       IN  IF user_id = ""
           THEN Complete(t, rec, ErrorResp("I can only look up reservations if you're logged in,"), FALSE)
           ELSE IF r = << >>
           THEN Complete(t, rec, ErrorResp("Reservation ID was not provided."), FALSE)
           ELSE Continue(t, rec, "get_engine")
    /\ state_get(s)
    /\ UNCHANGED <<fixed_vars, global_vars, checkedOut, verifyCalls>>

\* get_latest_user_reservations up to `await get_engine()`
ra_get_latest_user_reservations(t, s) ==
    /\ module = AGENT /\ CanStart(t) /\ LoopFree(t)
    /\ calls' = calls + 1
    /\ LET user_id == ra_get_user_id_from_context(s)
           rec == [Started("latest", s) EXCEPT !.user_id = user_id]
       IN  IF user_id = ""
           THEN Complete(t, rec, ErrorResp("I was unable to find any reservations under your name."), FALSE)
           ELSE Continue(t, rec, "get_engine")
    /\ state_get(s)
    /\ UNCHANGED <<fixed_vars, global_vars, checkedOut, verifyCalls>>

\* get_engine, statement by statement: the globals are guarded by nothing but the
\* interpreter lock, so callers on different threads interleave between statements.
get_engine_check(t) ==
    /\ task[t].pc = "get_engine" /\ LoopFree(t)
    /\ Continue(t, task[t], IF engine = 0 THEN "new_connector" ELSE "return_engine")
    /\ UNCHANGED <<fixed_vars, session_vars, global_vars, checkedOut, verifyCalls, calls>>

get_engine_connector(t) ==
    /\ task[t].pc = "new_connector" /\ LoopFree(t)
    /\ nConnectors' = nConnectors + 1
    /\ connector' = nConnectors + 1
    /\ Continue(t, task[t], "new_engine")
    /\ UNCHANGED <<fixed_vars, session_vars, engine, SessionLocal, nEngines, checkedOut, verifyCalls, calls>>

get_engine_create(t) ==
    /\ task[t].pc = "new_engine" /\ LoopFree(t)
    /\ nEngines' = nEngines + 1
    /\ engine' = nEngines + 1
    /\ Continue(t, task[t], "return_engine")
    /\ UNCHANGED <<fixed_vars, session_vars, connector, SessionLocal, nConnectors, checkedOut, verifyCalls, calls>>

get_engine_return(t) ==
    /\ task[t].pc = "return_engine" /\ LoopFree(t)
    /\ Continue(t, [task[t] EXCEPT !.pool = engine], "connect")
    /\ UNCHANGED <<fixed_vars, session_vars, global_vars, checkedOut, verifyCalls, calls>>

\* `async with pool.connect() as conn`: a connection is checked out of the pool, or
\* the acquisition raises (no connection can be made, or none frees up in pool_timeout).
ra_pool_connect(t) ==
    /\ module = AGENT /\ task[t].pc = "connect" /\ LoopFree(t)
    /\ \E granted \in BOOLEAN :
         IF granted /\ HasRoom(task[t].pool)
         THEN /\ checkedOut' = [checkedOut EXCEPT ![task[t].pool] = @ + 1]
              /\ Continue(t, task[t], "execute")
         ELSE /\ Complete(t, task[t],
                   RaisedResp(IF HasRoom(task[t].pool) THEN "OperationalError" ELSE "TimeoutError"),
                   FALSE)
              /\ UNCHANGED checkedOut
    /\ UNCHANGED <<fixed_vars, session_vars, global_vars, verifyCalls, calls>>

\* what the statement of the invocation returns when the database answers
ra_result(rec) ==
    IF rec.op = "by_id"
    THEN by_id_response(select_by_id_text(db, rec.rid, rec.user_id), rec.rid)
    ELSE {latest_response(rows, rec.user_id) : rows \in select_latest(db, rec.user_id)}

\* a release that is skipped: the connection stays checked out
release_skipped(rec) == checkedOut

\* the connection goes back to the pool it was checked out of
release(rec) == [checkedOut EXCEPT ![rec.pool] = @ - 1]

\* conn.execute(...) inside the `async with`: the rows are shaped into the response, or
\* the statement raises; the connection goes back to the pool on both ways out.
ra_pool_execute(t) ==
    /\ module = AGENT /\ task[t].pc = "execute" /\ LoopFree(t)
    /\ checkedOut' = release(task[t])
    /\ \E r \in ra_result(task[t]) \cup {RaisedResp("DBAPIError")} :
         Complete(t, task[t], r, TRUE)
    /\ UNCHANGED <<fixed_vars, session_vars, global_vars, verifyCalls, calls>>

\* the asyncio task is cancelled at one of its awaits: CancelledError unwinds through
\* the `async with`, which returns a connection already granted.
ra_cancel(t) ==
    /\ module = AGENT /\ task[t].pc \in {"connect", "execute"} /\ LoopFree(t)
    /\ checkedOut' = IF task[t].pc = "execute" THEN release(task[t]) ELSE checkedOut
    /\ Complete(t, task[t], CancelledResp, FALSE)
    /\ UNCHANGED <<fixed_vars, session_vars, global_vars, verifyCalls, calls>>

-----------------------------------------------------------------------------
(* src/tools.py *)

\* init_connection_pool: returns at once when the engine exists, otherwise builds
\* the connector, the engine and the session factory bound to it.
init_connection_pool ==
    IF engine # 0
    THEN UNCHANGED global_vars
    ELSE /\ connector' = nConnectors + 1
         /\ nConnectors' = nConnectors + 1
         /\ engine' = nEngines + 1
         /\ nEngines' = nEngines + 1
         /\ SessionLocal' = nEngines + 1

\* The module-level call: it runs under the import, before any tool can be called.
module_import ==
    /\ module = ROOT /\ ~imported
    /\ imported' = TRUE
    /\ init_connection_pool
    /\ UNCHANGED <<module, db, qres, clients, session_vars, checkedOut, verifyCalls, task, last, calls>>

\* a later call of init_connection_pool by any thread
root_init_connection_pool(t) ==
    /\ module = ROOT /\ CanStart(t)
    /\ calls' = calls + 1
    /\ init_connection_pool
    /\ Complete(t, Started("init_pool", "s1"), Returned, FALSE)
    /\ UNCHANGED <<fixed_vars, session_vars, checkedOut, verifyCalls>>

\* get_user_id_from_context: the value under "user_id_from_oauth", None without one
root_get_user_id_from_context(s) == user_id_from_oauth[s]

\* get_user_reservation_by_id up to `db = SessionLocal()`
root_get_user_reservation_by_id(t, s, r) ==
    /\ module = ROOT /\ CanStart(t)
    /\ calls' = calls + 1
    /\ LET user_id == root_get_user_id_from_context(s)
           rec == [Started("by_id", s) EXCEPT !.rid = r, !.user_id = user_id]
       IN  IF user_id = None
           THEN Complete(t, rec, ErrorResp("I can only look up reservations if you're logged in,"), FALSE)
           ELSE IF r = << >>
           THEN Complete(t, rec, ErrorResp("Reservation ID was not provided."), FALSE)
           ELSE IF SessionLocal = 0
           THEN Complete(t, rec, ErrorResp("Database session not initialized."), FALSE)
           ELSE Continue(t, [rec EXCEPT !.pool = SessionLocal], "try")
    /\ state_get(s)
    /\ UNCHANGED <<fixed_vars, global_vars, checkedOut, verifyCalls>>

\* get_latest_user_reservations up to `db = SessionLocal()`
root_get_latest_user_reservations(t, s) ==
    /\ module = ROOT /\ CanStart(t)
    /\ calls' = calls + 1
    /\ LET user_id == root_get_user_id_from_context(s)
           rec == [Started("latest", s) EXCEPT !.user_id = user_id]
       IN  IF user_id = None
           THEN Complete(t, rec, ErrorResp("I was unable to find any reservations under your name."), FALSE)
           ELSE IF SessionLocal = 0
           THEN Complete(t, rec, ErrorResp("Database session not initialized."), FALSE)
           ELSE Continue(t, [rec EXCEPT !.pool = SessionLocal], "try")
    /\ state_get(s)
    /\ UNCHANGED <<fixed_vars, global_vars, checkedOut, verifyCalls>>

\* the reservation id is acceptable to int()
root_id_ok(rec) == rec.op # "by_id" \/ py_int(rec.rid) # -1

root_error_text(rec) ==
    IF rec.op = "by_id" THEN "An error occurred while fetching the reservation: {e}"
    ELSE "An error occurred while fetching latest reservations: {e}"

\* the head of the try block: int(reservation_id), then db.execute checks a connection
\* out of the pool; ValueError and SQLAlchemyError become error responses, and the
\* finally clause closes a session that holds no connection.
root_try(t) ==
    /\ module = ROOT /\ task[t].pc = "try"
    /\ IF ~root_id_ok(task[t])
       THEN /\ Complete(t, task[t],
                   Resp("error", "Invalid reservation ID format: {rid}. Expected an integer or numeric string.",
                        task[t].rid, "", "", NoRows), FALSE)
            /\ UNCHANGED checkedOut
       ELSE \E granted \in BOOLEAN :
              IF granted /\ HasRoom(task[t].pool)
              THEN /\ checkedOut' = [checkedOut EXCEPT ![task[t].pool] = @ + 1]
                   /\ Continue(t, task[t], "execute")
              ELSE /\ Complete(t, task[t], DbErrorResp(root_error_text(task[t]),
                            IF HasRoom(task[t].pool) THEN "OperationalError" ELSE "TimeoutError"),
                        FALSE)
                   /\ UNCHANGED checkedOut
    /\ UNCHANGED <<fixed_vars, session_vars, global_vars, verifyCalls, calls>>

\* what the statement of the invocation returns when the database answers
root_result(rec) ==
    IF rec.op = "by_id"
    THEN by_id_response(select_by_id_int(db, py_int(rec.rid), rec.user_id), rec.rid)
    ELSE {latest_response(rows, rec.user_id) : rows \in select_latest(db, rec.user_id)}

\* the statement runs: its rows are shaped into the response, or SQLAlchemyError is
\* turned into an error response; `finally: db.close()` returns the connection.
root_execute(t) ==
    /\ module = ROOT /\ task[t].pc = "execute"
    /\ checkedOut' = release(task[t])
    /\ \E r \in root_result(task[t]) \cup {DbErrorResp(root_error_text(task[t]), "DBAPIError")} :
         Complete(t, task[t], r, TRUE)
    /\ UNCHANGED <<fixed_vars, session_vars, global_vars, verifyCalls, calls>>

-----------------------------------------------------------------------------
(* The process *)

Next ==
    \/ module_import
    \/ \E t \in Tasks, s \in Sessions : validate_oauth2_token_begin(t, s)
    \/ \E t \in Tasks : validate_oauth2_token_end(t)
    \/ \E t \in Tasks, s \in Sessions, r \in RidInputs : ra_get_user_reservation_by_id(t, s, r)
    \/ \E t \in Tasks, s \in Sessions : ra_get_latest_user_reservations(t, s)
    \/ \E t \in Tasks : get_engine_check(t)
    \/ \E t \in Tasks : get_engine_connector(t)
    \/ \E t \in Tasks : get_engine_create(t)
    \/ \E t \in Tasks : get_engine_return(t)
    \/ \E t \in Tasks : ra_pool_connect(t)
    \/ \E t \in Tasks : ra_pool_execute(t)
    \/ \E t \in Tasks : ra_cancel(t)
    \/ \E t \in Tasks : root_init_connection_pool(t)
    \/ \E t \in Tasks, s \in Sessions, r \in RidInputs : root_get_user_reservation_by_id(t, s, r)
    \/ \E t \in Tasks, s \in Sessions : root_get_latest_user_reservations(t, s)
    \/ \E t \in Tasks : root_try(t)
    \/ \E t \in Tasks : root_execute(t)

Spec == Init /\ [][Next]_vars

-----------------------------------------------------------------------------
(* The statements and the shaping of their rows, evaluated over every small table *)

QueryUsers == Users \cup {LOGIN_MSG}

InitQuery ==
    /\ TypeInit
    /\ module \in {AGENT, ROOT}
    /\ imported = TRUE
    /\ db \in AllDatabases \cup {Scenario2DB}
    /\ user_token = [s \in Sessions |-> None]
    /\ user_id_from_oauth = [s \in Sessions |-> None]

\* the response of the loaded module's tool o for the bound user u and argument r,
\* when the database answers
q_result(o, u, r) ==
    /\ qres.op = "none"
    /\ LET rec == [Idle EXCEPT !.op = o, !.user_id = u, !.rid = r]
       IN  /\ module = ROOT => root_id_ok(rec)
           /\ \E x \in (IF module = AGENT THEN ra_result(rec) ELSE root_result(rec)) :
                qres' = [op |-> o, uid |-> u, rid |-> r, resp |-> x]
    /\ UNCHANGED <<module, imported, db, session_vars, global_vars, checkedOut, verifyCalls,
                   task, last, calls, clients>>

NextQuery ==
    \/ \E u \in QueryUsers : q_result("latest", u, << >>)
    \/ \E u \in QueryUsers, r \in RidInputs \ {<< >>} : q_result("by_id", u, r)

SpecQuery == InitQuery /\ [][NextQuery]_vars

-----------------------------------------------------------------------------
(* The pools under many callers.  Callers are interchangeable here: what is kept is
   how many of them are at each stage of a call.  Every caller makes one call, the
   database answers, and the only way a call fails is the pool's timeout. *)

InitPool ==
    /\ module \in {AGENT, ROOT}
    /\ imported = TRUE
    /\ db = SampleDB
    /\ user_token = [s \in Sessions |-> None]
    /\ user_id_from_oauth = [s \in Sessions |-> None]
    /\ logged_in = [s \in Sessions |-> None]
    /\ id_token_info = [s \in Sessions |-> None]
    /\ verifyCalls = [s \in Sessions |-> 0]
    \* src/tools.py has built its pool under the import
    /\ connector = (IF module = ROOT THEN 1 ELSE 0)
    /\ engine = connector /\ SessionLocal = connector
    /\ nConnectors = connector /\ nEngines = connector
    /\ checkedOut = [e \in PoolEngines |-> 0]
    /\ task = [t \in Tasks |-> Idle]
    /\ last = [op |-> "none", sess |-> "s1", rid |-> << >>,
               user_id |-> "", ran |-> FALSE, resp |-> NoResp, again |-> FALSE]
    /\ calls = 0
    /\ qres = [op |-> "none", uid |-> "", rid |-> << >>, resp |-> NoResp]
    /\ clients = [st \in Stages |-> IF st = <<"idle", 0>> THEN NumClients ELSE 0]

pool_frame == <<module, imported, db, qres, session_vars, verifyCalls, task, last, calls>>

\* one caller goes from stage a to stage b
Move(a, b) ==
    /\ clients[a] > 0
    /\ clients' = [clients EXCEPT ![a] = @ - 1, ![b] = @ + 1]

\* one caller at stage a ends its call
Leave(a) ==
    /\ clients[a] > 0
    /\ clients' = [clients EXCEPT ![a] = @ - 1]

\* a tool is invoked and passes its gates: the asyncio tool awaits get_engine(), the
\* synchronous one opens a session on the pool built under the import
pool_call ==
    /\ Move(<<"idle", 0>>,
            IF module = AGENT THEN <<"get_engine", 0>> ELSE <<"connect", SessionLocal>>)
    /\ UNCHANGED <<pool_frame, global_vars, checkedOut>>

pool_get_engine_check ==
    /\ Move(<<"get_engine", 0>>,
            IF engine = 0 THEN <<"new_connector", 0>> ELSE <<"return_engine", 0>>)
    /\ UNCHANGED <<pool_frame, global_vars, checkedOut>>

pool_get_engine_connector ==
    /\ Move(<<"new_connector", 0>>, <<"new_engine", 0>>)
    /\ nConnectors' = nConnectors + 1
    /\ connector' = nConnectors + 1
    /\ UNCHANGED <<pool_frame, engine, SessionLocal, nEngines, checkedOut>>

pool_get_engine_create ==
    /\ Move(<<"new_engine", 0>>, <<"return_engine", 0>>)
    /\ nEngines' = nEngines + 1
    /\ engine' = nEngines + 1
    /\ UNCHANGED <<pool_frame, connector, SessionLocal, nConnectors, checkedOut>>

pool_get_engine_return ==
    /\ Move(<<"return_engine", 0>>, <<"connect", engine>>)
    /\ UNCHANGED <<pool_frame, global_vars, checkedOut>>

\* the pool of engine e hands a connection to a caller waiting for one
pool_acquire(e) ==
    /\ HasRoom(e)
    /\ Move(<<"connect", e>>, <<"execute", e>>)
    /\ checkedOut' = [checkedOut EXCEPT ![e] = @ + 1]
    /\ UNCHANGED <<pool_frame, global_vars>>

\* no connection of e frees up within pool_timeout: the caller's acquisition raises
\* TimeoutError and its call ends
pool_acquire_timeout(e) ==
    /\ ~HasRoom(e)
    /\ Leave(<<"connect", e>>)
    /\ UNCHANGED <<pool_frame, global_vars, checkedOut>>

\* the statement of a caller has run and its connection goes back to the pool
pool_release(e) ==
    /\ Leave(<<"execute", e>>)
    /\ checkedOut' = [checkedOut EXCEPT ![e] = @ - 1]
    /\ UNCHANGED <<pool_frame, global_vars>>

NextPool ==
    \/ pool_call
    \/ pool_get_engine_check
    \/ pool_get_engine_connector
    \/ pool_get_engine_create
    \/ pool_get_engine_return
    \/ \E e \in PoolEngines : pool_acquire(e)
    \/ \E e \in PoolEngines : pool_acquire_timeout(e)
    \/ \E e \in PoolEngines : pool_release(e)

SpecPool == InitPool /\ [][NextPool]_vars

-----------------------------------------------------------------------------
(* Vocabulary of the properties *)

ToolOps == {"by_id", "latest"}

\* the session passes for authenticated: the logged_in flag of the asyncio module,
\* the presence of "user_id_from_oauth" for the synchronous module, which has no flag
Authenticated(s) ==
    IF module = AGENT THEN logged_in[s] = "True" ELSE user_id_from_oauth[s] # None

\* the identity the token validator derived and wrote for the session
ValidatedIdentity(s) == id_token_info[s]

\* the identity of the session: what the validator wrote, or for the synchronous
\* module what the session carries under "user_id_from_oauth"
Identity(s) == IF module = AGENT THEN id_token_info[s] ELSE user_id_from_oauth[s]

\* the rows a reservation_id string names
NamedBy(rid) == {r \in db : DecStr(r.id) = rid}

DateOf(str) == CHOOSE d \in 1..31 : DateStr(d) = str

AllIdle == \A t \in Tasks : task[t].pc = "idle"

-----------------------------------------------------------------------------
(* C1 .. C10 *)

\* C1: in a session that is not authenticated, a tool invocation ends at its gate with
\* an error response: no caller of such a session is ever past the gate (at get_engine,
\* acquiring a connection or executing), and the invocation executed no statement.
C1_UnauthenticatedNoQuery ==
    /\ \A t \in Tasks :
         (task[t].op \in ToolOps /\ task[t].pc # "idle") => Authenticated(task[t].sess)
    /\ (last.op \in ToolOps /\ ~Authenticated(last.sess)) =>
         (last.resp.kind = "error" /\ ~last.ran)

\* C2: under every interleaving of first-time callers exactly one Connector and one
\* engine are constructed, and every caller holds that one engine.
C2_SingleEngine ==
    /\ nEngines <= 1
    /\ nConnectors <= 1
    /\ \A t \in Tasks : task[t].pool # 0 => task[t].pool = engine

\* C3: get_user_reservation_by_id in the session of identity A, for an id that names a
\* reservation owned by B # A, answers with the not-found message and never with the
\* row (stated for the invocations whose statement the database answered).
C3_OtherOwnerNotFound ==
    (/\ last.op = "by_id" /\ last.ran
     /\ last.resp.kind \in {"reservation", "message"}
     /\ Identity(last.sess) \in Users
     /\ \E r \in NamedBy(last.rid) : r.user_id # Identity(last.sess))
    => last.resp.kind = "message"

\* C4: the user id bound into an executed statement is the identity the token
\* validator derived and wrote for that session.
C4_BoundIdentityValidated ==
    (last.op \in ToolOps /\ last.ran) => last.user_id = ValidatedIdentity(last.sess)

\* C5: get_user_reservation_by_id with a reservation_id that is not numeric executes
\* no statement (stated for the sessions that pass the gate).
C5_NonNumericNoQuery ==
    (last.op = "by_id" /\ py_int(last.rid) = -1 /\ Authenticated(last.sess)) => ~last.ran

C7_FailureAbsorbed ==
    last.op = "validate" =>
        /\ last.resp.kind = "returned"
        /\ user_token[last.sess] = BadToken => logged_in[last.sess] = "False"

\* C8: once the validator has set the flag, no step changes the flag or the identity,
\* and the verifier is not called again for the session.
C8_ValidatedOnce ==
    [][\A s \in Sessions :
         logged_in[s] # None =>
             /\ logged_in'[s] = logged_in[s]
             /\ id_token_info'[s] = id_token_info[s]
             /\ verifyCalls'[s] = verifyCalls[s]]_vars

\* C9: the connections checked out of a pool are exactly those of the invocations that
\* are executing on it: a caller waiting for a connection holds none, and when every
\* invocation has ended or was abandoned no connection is checked out.
C9_ConnectionsReleased ==
    \A e \in PoolIds :
        checkedOut[e] = Cardinality({t \in Tasks : task[t].pc = "execute" /\ task[t].pool = e})

\* a statement failed after its connection was granted; every caller has ended
C9_Witness ==
    /\ last.op \in ToolOps /\ last.ran /\ last.resp.err = "DBAPIError"
    /\ AllIdle /\ calls = MaxCalls
    /\ \A e \in PoolIds : checkedOut[e] = 0

\* C10: no tool invocation ends by an exception that leaves the tool function.
C10_NoUncaught ==
    last.op \in ToolOps => last.resp.kind # "exception"

-----------------------------------------------------------------------------
(* C11 .. C18 *)

\* C11: a response of either tool carries no text of the driver's or database's error:
\* after a database failure the error response holds the generic message only.
C11_NoRawErrorText ==
    (last.op \in ToolOps /\ last.resp.kind = "error") => last.resp.err = ""

\* C12: within a session the validator has completed (the flag is written) before a tool
\* invocation reads the flag: no tool invocation of the asyncio module is in progress
\* in a session whose flag was never written (the flag is only ever written, never
\* removed, so it was unwritten when the invocation read it).
C12_ValidatedBeforeTools ==
    module = AGENT =>
        \A t \in Tasks :
            (task[t].op \in ToolOps /\ task[t].pc # "idle") => logged_in[task[t].sess] # None

RECURSIVE SumCheckedOut(_)
SumCheckedOut(n) == IF n = 0 THEN 0 ELSE checkedOut[n] + SumCheckedOut(n - 1)

\* the connections checked out in the process, over all its pools
CheckedOutTotal == SumCheckedOut(NumClients)

\* C13: the connections checked out process-wide never exceed pool_size + max_overflow
\* = 7 (over every pool the process has built).
C13_AtMostSeven == CheckedOutTotal <= pool_size + max_overflow

C15_NoCredentialNoVerifier ==
    \A s \in Sessions :
        user_token[s] = None =>
            /\ verifyCalls[s] = 0
            /\ \A t \in Tasks : ~(task[t].pc = "verifying" /\ task[t].sess = s)
            /\ (last.op = "validate" /\ last.sess = s) =>
                   (last.resp = Returned /\ logged_in[s] = "False")

\* the validator has run for a session without a token
C15_Witness ==
    /\ last.op = "validate" /\ user_token[last.sess] = None
    /\ last.resp = Returned /\ logged_in[last.sess] = "False"
    /\ verifyCalls[last.sess] = 0

\* the next step of the invocation caller t is in
TaskStep(t) ==
    \/ get_engine_check(t) \/ get_engine_connector(t) \/ get_engine_create(t)
    \/ get_engine_return(t) \/ ra_pool_connect(t) \/ ra_pool_execute(t)

OneShape(resp) ==
    \/ resp.kind \in {"reservation", "reservations"} /\ resp.rows # NoRows /\ resp.text = ""
    \/ resp.kind \in {"message", "error"} /\ resp.rows = NoRows /\ resp.text # ""

ToolMoves ==
    \/ \E t \in Tasks :
         /\ task'[t] # task[t]
         /\ task[t].op \in ToolOps \/ task'[t].op \in ToolOps
    \/ task' = task /\ last' # last /\ last'.op \in ToolOps

\* C18: no step of a tool invocation, whatever its outcome, changes the session state
\* the security decisions rest on: the credential, the logged-in flag, the token info
\* and the identity of every session are the same after the step as before it.
C18_ToolsReadOnly ==
    [][ToolMoves
       => /\ user_token' = user_token
          /\ logged_in' = logged_in
          /\ id_token_info' = id_token_info
          /\ user_id_from_oauth' = user_id_from_oauth]_vars

\* a tool invocation has run its statement in a validated session, whose state is as
\* the validator wrote it
C18_Witness ==
    /\ last.op \in ToolOps /\ last.ran
    /\ user_token[last.sess] \in Tokens
    /\ logged_in[last.sess] = "True"
    /\ id_token_info[last.sess] = Subject(user_token[last.sess])

====
